---- MODULE Spec2Model ----
(***************************************************************************)
(* The TIZO kiosk.  On the server: the rate cache upsellOffersCache        *)
(* (loadUpsellOffersCache), the tiered top-up converter                    *)
(* (calculateCustomTizo) and the handlers of /api/custom-topup-upsell,     *)
(* /api/layout-config and POST /save.  In the kiosk pages: the session     *)
(* manager that keeps the session in localStorage.                         *)
(*                                                                         *)
(* A row of upsell_offers is a record [topup_rb, tizo_value].  The cache   *)
(* is the module-level variable upsellOffersCache: null until the first    *)
(* successful load, afterwards the array of rows the query returned.       *)
(***************************************************************************)
EXTENDS Integers, Sequences, FiniteSets, TLC

VARIABLES
    upsellOffersCache,  \* [isNull, rows]: null, or the array result.rows
    loadPc,             \* per invocation of loadUpsellOffersCache: where it stands
    serverUp,           \* the Node process is running
    last,               \* what the step just taken did (observation only)
    lastWrite,          \* the rows of the latest load that succeeded (observation only)
    request,            \* the /api/custom-topup-upsell request waiting for its query
    layoutRequest,      \* the /api/layout-config request waiting for its query
    layoutResponse,     \* the response /api/layout-config sent last
    saved,              \* the files POST /save has written: their full paths
    saveResponse,       \* the response POST /save sent last
    localStorage,       \* the kiosk browser's localStorage: tizo_session, tizo_language
    now,                \* Date.now() of the kiosk browser, in ms
    call,               \* the session manager call just made (observation only)
    elementStates,      \* edit mode: the state kept per element id
    editItems,          \* edit mode: its entries in localStorage
    htmlFile,           \* the page's HTML file: how often it holds each added element
    dom,                \* the document: how often it holds each added element
    editPc,             \* edit mode: on or off, the save request in flight, the last event
    layer               \* edit mode: the selected element's z-index, kept and displayed

\* the rate cache, its observers and the request that reads it
rateVars == <<upsellOffersCache, loadPc, serverUp, last, lastWrite, request>>

\* GET /api/layout-config
layoutVars == <<layoutRequest, layoutResponse>>

\* what the rate cache and its readers leave alone
\* POST /save
saveVars == <<saved, saveResponse>>

\* the session manager of the kiosk pages
sessionVars == <<localStorage, now, call>>

\* the edit mode script of the pages
editVars == <<elementStates, editItems, htmlFile, dom, editPc, layer>>

otherVars == <<layoutVars, saveVars, sessionVars, editVars>>

vars == <<rateVars, otherVars>>

---------------------------------------------------------------------------
(* Bounds of the model *)

\* largest number of rows the upsell_offers table holds
MaxRows == 3
\* number of invocations of loadUpsellOffersCache in one run of the process
MaxLoads == 2
\* amounts up to MaxBaseUnits whole base units plus a remainder
MaxBaseUnits == 2
\* the largest count the offers count query answers with
MaxCount == 6
\* how many times the kiosk clock is advanced
MaxTicks == 3
\* how many copies of one added element the document may come to hold
MaxCopies == 2

(* Program constants *)
BASE_UNIT == 600
BASE_CREDIT == 1200
SESSION_TIMEOUT_MS == 30 * 60 * 1000

\* rows the upsell_offers table may hold
Offers ==
    { [topup_rb |-> 40,  tizo_value |-> 40],
      [topup_rb |-> 100, tizo_value |-> 120],
      [topup_rb |-> 550, tizo_value |-> 1020],
      [topup_rb |-> 550, tizo_value |-> 500],
      [topup_rb |-> 560, tizo_value |-> 600],
      [topup_rb |-> 600, tizo_value |-> 1300],
      [topup_rb |-> 700, tizo_value |-> 1500] }

\* remainders below the base unit that the amounts cover
Remainders == {0, 40, 50, 80, 550, 590}

\* the amounts a caller passes: parseInt of the rb parameter, negative ones included
Amounts ==
    {-600, -5} \cup
    { BASE_UNIT * k + r : k \in 0..MaxBaseUnits, r \in Remainders }

LoadIds == 1..MaxLoads

null == [isNull |-> TRUE, rows |-> <<>>]

array(rows) == [isNull |-> FALSE, rows |-> rows]

---------------------------------------------------------------------------
(* The offers source: SELECT * FROM upsell_offers ORDER BY topup_rb *)

Range(s) == { s[i] : i \in 1..Len(s) }

IsAscending(rows) ==
    \A i \in 1..Len(rows) : \A j \in 1..Len(rows) :
        i < j => rows[i].topup_rb <= rows[j].topup_rb

\* every enumeration of the set T of rows, each row once
Enumerations(T) ==
    { s \in [1..Cardinality(T) -> T] : Range(s) = T }

\* the answers the database may give for a table holding the rows T:
\* all of T, in ascending topup_rb order (rows of equal topup_rb in any order)
OrderByTopupRb(T) ==
    { s \in Enumerations(T) : IsAscending(s) }

Tables == { T \in SUBSET Offers : Cardinality(T) <= MaxRows }

---------------------------------------------------------------------------
(* calculateCustomTizo *)

\* Step 1 without the line remaining = remaining % 600
Step1_KeepRemaining(amountRb) ==
    LET base600Count == amountRb \div BASE_UNIT
    IN  IF base600Count > 0
        THEN [totalTizo |-> base600Count * BASE_CREDIT, remaining |-> amountRb]
        ELSE [totalTizo |-> 0, remaining |-> amountRb]

\* Step 1: 600 Rb as many times as possible, 1200 Tizo each
Step1(amountRb) ==
    LET base600Count == amountRb \div BASE_UNIT   \* Math.floor(remaining / 600)
    IN  IF base600Count > 0
        THEN [totalTizo |-> base600Count * BASE_CREDIT,
              remaining |-> amountRb % BASE_UNIT]
        ELSE [totalTizo |-> 0, remaining |-> amountRb]

\* the filter callback: o => o.topup_rb < 600
below600(o) == o.topup_rb < BASE_UNIT

\* the sort callback with its operands swapped: ascending order
compareOffers_Ascending(a, b) == a.topup_rb - b.topup_rb

\* the sort callback: (a, b) => b.topup_rb - a.topup_rb
compareOffers(a, b) == b.topup_rb - a.topup_rb

\* Array.prototype.sort with a comparator: stable; x goes after every element
\* it does not compare below
RECURSIVE InsertSorted(_, _)
InsertSorted(x, sorted) ==
    IF sorted = <<>> THEN <<x>>
    ELSE IF compareOffers(x, Head(sorted)) < 0
         THEN <<x>> \o sorted
         ELSE <<Head(sorted)>> \o InsertSorted(x, Tail(sorted))

RECURSIVE SortOffers(_)
SortOffers(arr) ==
    IF arr = <<>> THEN <<>>
    ELSE InsertSorted(arr[Len(arr)], SortOffers(SubSeq(arr, 1, Len(arr) - 1)))

\* upsellOffersCache.sort(...).filter(...): the sort reorders the cache array
FilterAndSort_SortCache(cacheRows) ==
    LET sorted == SortOffers(cacheRows)
    IN  [validOffers |-> SelectSeq(sorted, below600), cacheRows |-> sorted]

\* upsellOffersCache.filter(...).sort(...): filter returns a new array, sort
\* orders its receiver in place and returns it; the receiver here is the new
\* array, so the cache array keeps its elements and their order
FilterAndSort(cacheRows) ==
    LET filtered == SelectSeq(cacheRows, below600)
    IN  [validOffers |-> SortOffers(filtered), cacheRows |-> cacheRows]

\* the loop written as an if: each offer is applied once at most
WhileOffer_Once(offer, acc) ==
    IF acc.remaining >= offer.topup_rb
    THEN [totalTizo |-> acc.totalTizo + offer.tizo_value,
          remaining |-> acc.remaining - offer.topup_rb]
    ELSE acc

\* while (remaining >= offer.topup_rb) { totalTizo += ...; remaining -= ... }
RECURSIVE WhileOffer(_, _)
WhileOffer(offer, acc) ==
    IF acc.remaining >= offer.topup_rb
    THEN WhileOffer(offer, [totalTizo |-> acc.totalTizo + offer.tizo_value,
                            remaining |-> acc.remaining - offer.topup_rb])
    ELSE acc

\* for (const offer of validOffers) { while ... }
RECURSIVE ForOffers(_, _)
ForOffers(validOffers, acc) ==
    IF validOffers = <<>> THEN acc
    ELSE ForOffers(Tail(validOffers), WhileOffer(Head(validOffers), acc))

\* the for/while pair never ends once it reaches an offer whose topup_rb is
\* not positive: remaining >= offer.topup_rb then holds on every pass
NeverEnds(validOffers) ==
    \E i \in 1..Len(validOffers) : validOffers[i].topup_rb <= 0

\* Step 3 as its comment words it: only a remainder below 100 Rb is credited
Step3_Below100(acc) ==
    IF acc.remaining > 0 /\ acc.remaining < 100
    THEN acc.totalTizo + acc.remaining
    ELSE acc.totalTizo

\* Step 3: what is left is credited 1:1
Step3(acc) ==
    IF acc.remaining > 0 THEN acc.totalTizo + acc.remaining ELSE acc.totalTizo

\* the table applied to the whole amount, unfiltered, before the base unit
calculateCustomTizo_TableFirst(amountRb, cache) ==
    LET s0 == [totalTizo |-> 0, remaining |-> amountRb]
        enter == amountRb > 0 /\ ~cache.isNull /\ Len(cache.rows) > 0
        s2 == IF enter THEN ForOffers(SortOffers(cache.rows), s0) ELSE s0
        s1 == Step1(s2.remaining)
    IN  [ret   |-> Step3([totalTizo |-> s2.totalTizo + s1.totalTizo,
                          remaining |-> s1.remaining]),
         threw |-> FALSE,
         hangs |-> FALSE,
         cache |-> cache]

\* the whole call: the value returned, whether it threw, whether it loops
\* for ever instead of returning, and the cache it leaves
calculateCustomTizo(amountRb, cache) ==
    LET s1 == Step1(amountRb)
        enter == s1.remaining > 0 /\ ~cache.isNull /\ Len(cache.rows) > 0
        fs == FilterAndSort(cache.rows)
        hangs == enter /\ NeverEnds(fs.validOffers)
        s2 == IF enter THEN ForOffers(fs.validOffers, s1) ELSE s1
    IN  [ret   |-> IF hangs THEN 0 ELSE Step3(s2),
         threw |-> FALSE,
         hangs |-> hangs,
         cache |-> IF enter THEN array(fs.cacheRows) ELSE cache]

---------------------------------------------------------------------------
(* loadUpsellOffersCache *)

\* what the awaited pool.query settles with
QueryOutcomes ==
    { [ok |-> TRUE, rows |-> rows] :
        rows \in UNION { OrderByTopupRb(T) : T \in Tables } }
    \cup { [ok |-> FALSE, rows |-> <<>>] }

\* the rows pushed onto the array already held instead of replacing it
loadUpsellOffersCache_Append(prev, result) ==
    IF result.ok
    THEN [cache |-> array(prev.rows \o result.rows), settled |-> "fulfilled"]
    ELSE [cache |-> prev, settled |-> "fulfilled"]

\* a catch block that empties the cache and throws the error on
loadUpsellOffersCache_ResetAndThrow(prev, result) ==
    IF result.ok
    THEN [cache |-> array(result.rows), settled |-> "fulfilled"]
    ELSE [cache |-> array(<<>>), settled |-> "rejected"]

\* the body after the await: the assignment of result.rows, or the catch
\* block, which only logs; either way the function's promise is fulfilled
loadUpsellOffersCache(prev, result) ==
    IF result.ok
    THEN [cache |-> array(result.rows), settled |-> "fulfilled"]
    ELSE [cache |-> prev, settled |-> "fulfilled"]

---------------------------------------------------------------------------
(* The state machine *)

\* a response not sent
NoResponse ==
    [status |-> 0, customAmount |-> 0, customTizo |-> 0,
     upsellBox1 |-> [rb |-> 0, tizo |-> 0],
     upsellBox2 |-> [rb |-> 0, tizo |-> 0],
     isFallback |-> FALSE]

NoRequest == [pending |-> FALSE, amountRb |-> 0, loadsReturned |-> 0]

NoEvent ==
    [kind |-> "none", amountRb |-> 0, ret |-> 0, threw |-> FALSE,
     rows |-> <<>>, before |-> null, settled |-> "none",
     response |-> NoResponse, loadsReturned |-> 0]

InitRate ==
    /\ upsellOffersCache = null
    /\ loadPc = [l \in LoadIds |-> "idle"]
    /\ serverUp = TRUE
    /\ last = NoEvent
    /\ lastWrite = null
    /\ request = NoRequest

\* no /api/layout-config request made yet
NoLayoutRequest == [pending |-> FALSE, cardType |-> "", dbCardType |-> ""]

NoLayoutResponse ==
    [status |-> 0, success |-> FALSE, layout |-> 0, count |-> 0, cardType |-> "",
     asked |-> [present |-> FALSE, value |-> ""]]

InitLayout ==
    /\ layoutRequest = NoLayoutRequest
    /\ layoutResponse = NoLayoutResponse

\* no POST /save answered yet; target is the full path the request resolved to
NoSaveResponse == [status |-> 0, target |-> <<>>, resolved |-> FALSE]

InitSave ==
    /\ saved = {}
    /\ saveResponse = NoSaveResponse

\* JavaScript null, and a value that is not null
jsNull == [isNull |-> TRUE]

js(value) == [isNull |-> FALSE, value |-> value]

\* Date.now() when the kiosk page is first opened
StartTime == 1000

\* no session manager call made yet
NoCall ==
    [fn |-> "none", forceNew |-> FALSE, ret |-> jsNull, before |-> jsNull,
     active |-> FALSE]

InitSession ==
    /\ localStorage = [tizo_session |-> jsNull, tizo_language |-> jsNull,
                       selectedCard |-> jsNull, cardQuantity |-> jsNull,
                       topupAmount |-> jsNull, topupTizo |-> jsNull,
                       scratchAmount |-> jsNull, scratchTizo |-> jsNull,
                       cardType |-> jsNull]
    /\ now = StartTime
    /\ call = NoCall

\* the page id and the localStorage keys 'editMode_' + pageId, 'editStates_' + pageId
pageId == "default"

editModeKey == <<"editMode_", pageId>>

editStatesKey == <<"editStates_", pageId>>

\* the ids of the elements that can be added
AddedIds == {"added-1", "added-2"}

\* the id of an element of the page as it was written
ExistingIds == {"title"}

\* elementStates = {}
NoStates == [id \in {} |-> [isAdded |-> FALSE]]

NoEditPc == [editMode |-> FALSE, saving |-> FALSE, content |-> [id \in AddedIds |-> 0],
             event |-> "none"]

\* no element selected yet
NoLayer == [selected |-> FALSE, hasState |-> FALSE, zIndex |-> jsNull,
            style |-> jsNull, delta |-> 0, before |-> jsNull]

InitEdit ==
    /\ elementStates = NoStates
    /\ editItems = [key \in {editModeKey, editStatesKey} |-> jsNull]
    /\ htmlFile = [id \in AddedIds |-> 0]
    /\ dom = [id \in AddedIds |-> 0]
    /\ editPc = NoEditPc
    /\ layer = NoLayer

InitOther ==
    /\ InitLayout
    /\ InitSave
    /\ InitSession
    /\ InitEdit

Init ==
    /\ InitRate
    /\ InitOther

\* loadUpsellOffersCache() is called and suspends at await pool.query(...)
LoadCall(l) ==
    /\ serverUp
    /\ loadPc[l] = "idle"
    /\ loadPc' = [loadPc EXCEPT ![l] = "awaiting"]
    /\ last' = NoEvent
    /\ UNCHANGED <<upsellOffersCache, serverUp, lastWrite, request, otherVars>>

\* the query settles and the rest of loadUpsellOffersCache runs; a rejected
\* promise in the async listen callback would end the process
LoadSettle(l, result) ==
    /\ serverUp
    /\ loadPc[l] = "awaiting"
    /\ LET r == loadUpsellOffersCache(upsellOffersCache, result)
       IN  /\ upsellOffersCache' = r.cache
           /\ serverUp' = (r.settled = "fulfilled")
           /\ last' = [NoEvent EXCEPT
                         !.kind = IF result.ok THEN "loadOk" ELSE "loadFail",
                         !.rows = result.rows,
                         !.before = upsellOffersCache,
                         !.settled = r.settled]
    /\ lastWrite' = IF result.ok THEN array(result.rows) ELSE lastWrite
    /\ loadPc' = [loadPc EXCEPT ![l] = "returned"]
    /\ UNCHANGED <<request, otherVars>>

\* a request handler calls calculateCustomTizo(amountRb); a call that never
\* returns keeps the one thread of the process, which then serves nothing more
Convert(amountRb) ==
    /\ serverUp
    /\ LET r == calculateCustomTizo(amountRb, upsellOffersCache)
       IN  /\ upsellOffersCache' = r.cache
           /\ serverUp' = ~r.hangs
           /\ last' = [NoEvent EXCEPT
                         !.kind = IF r.hangs THEN "hang" ELSE "convert",
                         !.amountRb = amountRb,
                         !.ret = r.ret,
                         !.threw = r.threw,
                         !.before = upsellOffersCache]
    /\ UNCHANGED <<loadPc, lastWrite, request, otherVars>>

Next ==
    \/ \E l \in LoadIds : LoadCall(l)
    \/ \E l \in LoadIds : \E result \in QueryOutcomes : LoadSettle(l, result)
    \/ \E amountRb \in Amounts : Convert(amountRb)

Spec == Init /\ [][Next]_vars

---------------------------------------------------------------------------
(* The converter on its own: calculateCustomTizo reads whatever array the  *)
(* module variable holds, so here the cache starts as null or as any       *)
(* arrangement of the rows of a table, and only conversions are made.      *)

InitConvert ==
    /\ upsellOffersCache \in
          {null} \cup { array(s) : s \in UNION { Enumerations(T) : T \in Tables } }
    /\ loadPc = [l \in LoadIds |-> "idle"]
    /\ serverUp = TRUE
    /\ last = NoEvent
    /\ lastWrite = upsellOffersCache
    /\ request = NoRequest
    /\ InitOther

NextConvert == \E amountRb \in Amounts : Convert(amountRb)

SpecConvert == InitConvert /\ [][NextConvert]_vars

---------------------------------------------------------------------------
(* The offers source answering with rows that are no rate-table entries:   *)
(* a topup_rb that is not positive.                                        *)

MalformedOffers ==
    { [topup_rb |-> 0,   tizo_value |-> 10],
      [topup_rb |-> -50, tizo_value |-> 60] }

IsMalformed(o) == o.topup_rb <= 0

\* a malformed row alone or next to one row of Offers
MalformedTables ==
    { {m} \cup T : m \in MalformedOffers,
                   T \in { U \in SUBSET Offers : Cardinality(U) <= 1 } }

MalformedOutcomes ==
    { [ok |-> TRUE, rows |-> rows] :
        rows \in UNION { OrderByTopupRb(T) : T \in MalformedTables } }

NextMalformed ==
    \/ \E l \in LoadIds : LoadCall(l)
    \/ \E l \in LoadIds :
         \E result \in QueryOutcomes \cup MalformedOutcomes : LoadSettle(l, result)
    \/ \E amountRb \in Amounts : Convert(amountRb)

SpecMalformed == Init /\ [][NextMalformed]_vars

---------------------------------------------------------------------------
(* Racing loads: every invocation of loadUpsellOffersCache has been made   *)
(* and none of the queries has settled yet; they settle in any order,      *)
(* between conversions.                                                    *)

InitRace ==
    /\ upsellOffersCache = null
    /\ loadPc = [l \in LoadIds |-> "awaiting"]
    /\ serverUp = TRUE
    /\ last = NoEvent
    /\ lastWrite = null
    /\ request = NoRequest
    /\ InitOther

NextRace ==
    \/ \E l \in LoadIds : \E result \in QueryOutcomes : LoadSettle(l, result)
    \/ \E amountRb \in Amounts : Convert(amountRb)

SpecRace == InitRace /\ [][NextRace]_vars

---------------------------------------------------------------------------
(* GET /api/custom-topup-upsell *)

\* rows the custom_topup_upsell table may hold
UpsellRanges ==
    { [range_min |-> 0,   range_max |-> 600,
       upsell_box_1 |-> 590,  upsell_box_2 |-> 1200],
      [range_min |-> 601, range_max |-> 2000,
       upsell_box_1 |-> 1790, upsell_box_2 |-> 2400] }

\* the values of the rb parameter that parseInt reads as these amounts
RequestAmounts == {-5, 40, 590, 1790}

\* what the range query settles with for $1 = amountRb: the first row whose
\* range holds the amount, no row, or an error
RangeOutcomes(amountRb) ==
    { [ok |-> TRUE, rows |-> <<row>>] :
        row \in { r \in UpsellRanges :
                    r.range_min <= amountRb /\ amountRb <= r.range_max } }
    \cup { [ok |-> TRUE, rows |-> <<>>], [ok |-> FALSE, rows |-> <<>>] }

\* Math.ceil(amountRb / 50) * 50
CeilTo50(amountRb) == (-((-amountRb) \div 50)) * 50

\* the fallback branch with the second box converted from the first box's amount
customTopupUpsell_Box2FromBox1(amountRb, result, cache) ==
    IF ~result.ok THEN [response |-> [NoResponse EXCEPT !.status = 500], cache |-> cache]
    ELSE IF Len(result.rows) > 0
    THEN LET row == result.rows[1]
             tizo1 == calculateCustomTizo(row.upsell_box_1, cache)
             tizo2 == calculateCustomTizo(row.upsell_box_2, tizo1.cache)
             customTizo == calculateCustomTizo(amountRb, tizo2.cache)
         IN  [response |->
                [status |-> 200, customAmount |-> amountRb,
                 customTizo |-> customTizo.ret,
                 upsellBox1 |-> [rb |-> row.upsell_box_1, tizo |-> tizo1.ret],
                 upsellBox2 |-> [rb |-> row.upsell_box_2, tizo |-> tizo2.ret],
                 isFallback |-> FALSE],
              cache |-> customTizo.cache]
    ELSE LET customTizo == calculateCustomTizo(amountRb, cache)
             tizo1 == calculateCustomTizo(CeilTo50(amountRb), customTizo.cache)
         IN  [response |->
                [status |-> 200, customAmount |-> amountRb,
                 customTizo |-> customTizo.ret,
                 upsellBox1 |-> [rb |-> CeilTo50(amountRb), tizo |-> tizo1.ret],
                 upsellBox2 |-> [rb |-> CeilTo50(amountRb) + 50, tizo |-> tizo1.ret],
                 isFallback |-> TRUE],
              cache |-> tizo1.cache]

\* the .then and .catch callbacks of the range query: the response sent and
\* the cache the three calls of calculateCustomTizo leave
customTopupUpsell(amountRb, result, cache) ==
    IF ~result.ok THEN [response |-> [NoResponse EXCEPT !.status = 500], cache |-> cache]
    ELSE IF Len(result.rows) > 0
    THEN LET row == result.rows[1]
             tizo1 == calculateCustomTizo(row.upsell_box_1, cache)
             tizo2 == calculateCustomTizo(row.upsell_box_2, tizo1.cache)
             customTizo == calculateCustomTizo(amountRb, tizo2.cache)
         IN  [response |->
                [status |-> 200, customAmount |-> amountRb,
                 customTizo |-> customTizo.ret,
                 upsellBox1 |-> [rb |-> row.upsell_box_1, tizo |-> tizo1.ret],
                 upsellBox2 |-> [rb |-> row.upsell_box_2, tizo |-> tizo2.ret],
                 isFallback |-> FALSE],
              cache |-> customTizo.cache]
    ELSE LET customTizo == calculateCustomTizo(amountRb, cache)
             tizo1 == calculateCustomTizo(CeilTo50(amountRb), customTizo.cache)
             tizo2 == calculateCustomTizo(CeilTo50(amountRb) + 50, tizo1.cache)
         IN  [response |->
                [status |-> 200, customAmount |-> amountRb,
                 customTizo |-> customTizo.ret,
                 upsellBox1 |-> [rb |-> CeilTo50(amountRb), tizo |-> tizo1.ret],
                 upsellBox2 |-> [rb |-> CeilTo50(amountRb) + 50, tizo |-> tizo2.ret],
                 isFallback |-> TRUE],
              cache |-> tizo2.cache]

\* while the handler is exercised the offers source holds the documented
\* tiers 40 -> 40, 100 -> 120 and 550 -> 1020, or some of them
UpsellQueryOutcomes ==
    { result \in QueryOutcomes :
        Range(result.rows) \subseteq { [topup_rb |-> 40,  tizo_value |-> 40],
                                       [topup_rb |-> 100, tizo_value |-> 120],
                                       [topup_rb |-> 550, tizo_value |-> 1020] } }

LoadsReturned == Cardinality({ l \in LoadIds : loadPc[l] = "returned" })

\* the request comes in without an rb parameter: 400 at once
UpsellNoRb ==
    /\ serverUp
    /\ ~request.pending
    /\ last' = [NoEvent EXCEPT !.kind = "upsell",
                               !.response = [NoResponse EXCEPT !.status = 400]]
    /\ UNCHANGED <<upsellOffersCache, loadPc, serverUp, lastWrite, request, otherVars>>

\* the request comes in with an rb parameter and the range query is sent
UpsellRequest(amountRb) ==
    /\ serverUp
    /\ ~request.pending
    /\ request' = [pending |-> TRUE, amountRb |-> amountRb,
                   loadsReturned |-> LoadsReturned]
    /\ last' = NoEvent
    /\ UNCHANGED <<upsellOffersCache, loadPc, serverUp, lastWrite, otherVars>>

\* the range query settles and the response is built and sent
UpsellSettle(result) ==
    /\ serverUp
    /\ request.pending
    /\ LET r == customTopupUpsell(request.amountRb, result, upsellOffersCache)
       IN  /\ upsellOffersCache' = r.cache
           /\ last' = [NoEvent EXCEPT
                         !.kind = "upsell",
                         !.amountRb = request.amountRb,
                         !.before = upsellOffersCache,
                         !.response = r.response,
                         !.loadsReturned = request.loadsReturned]
    /\ request' = NoRequest
    /\ UNCHANGED <<loadPc, serverUp, lastWrite, otherVars>>

NextUpsell ==
    \/ \E l \in LoadIds : LoadCall(l)
    \/ \E l \in LoadIds : \E result \in UpsellQueryOutcomes : LoadSettle(l, result)
    \/ UpsellNoRb
    \/ \E amountRb \in RequestAmounts : UpsellRequest(amountRb)
    \/ \E result \in RangeOutcomes(request.amountRb) : UpsellSettle(result)

SpecUpsell == Init /\ [][NextUpsell]_vars

---------------------------------------------------------------------------
(* GET /api/layout-config *)

\* searchParams.get('cardType'): null when the parameter is absent
NoParam == [present |-> FALSE, value |-> ""]

Param(value) == [present |-> TRUE, value |-> value]

CardTypeValues ==
    {"", "red", "RED", "blue", "gold", "silver", "platinum", "new_user", "Diamond"}

CardTypeParams == {NoParam} \cup { Param(value) : value \in CardTypeValues }

\* cardType.toLowerCase() on the values above
toLowerCase(str) ==
    CASE str = "RED" -> "red"
      [] str = "Diamond" -> "diamond"
      [] OTHER -> str

cardTypeMap ==
    [red |-> "Red", blue |-> "Blue", gold |-> "Gold", silver |-> "Platinum",
     platinum |-> "Platinum", new_user |-> "New User"]

\* cardTypeMap[cardType.toLowerCase()] || cardType
dbCardTypeOf(cardType) ==
    IF toLowerCase(cardType) \in DOMAIN cardTypeMap
    THEN cardTypeMap[toLowerCase(cardType)]
    ELSE cardType

\* what the count query settles with: one row holding the count, or an error
CountOutcomes ==
    { [ok |-> TRUE, rows |-> << [count |-> n] >>] : n \in 0..MaxCount }
    \cup { [ok |-> FALSE, rows |-> <<>>] }

\* the layout chosen with the first boundary one lower
layoutOf_Below3(count) ==
    IF count < 3 THEN 3
    ELSE IF count = 4 THEN 4
    ELSE 5

\* the if / else if / else on count
layoutOf(count) ==
    IF count <= 3 THEN 3
    ELSE IF count = 4 THEN 4
    ELSE 5

\* the .then and .catch callbacks of the count query
layoutConfig(req, result) ==
    IF result.ok
    THEN LET count == result.rows[1].count
         IN  [status |-> 200, success |-> TRUE, layout |-> layoutOf(count),
              count |-> count, cardType |-> req.dbCardType,
              asked |-> Param(req.cardType)]
    ELSE [NoLayoutResponse EXCEPT !.status = 500, !.asked = Param(req.cardType)]

\* the request comes in: 400 at once without a cardType, else the count
\* query is sent
LayoutRequest(param) ==
    /\ serverUp
    /\ ~layoutRequest.pending
    /\ IF ~param.present \/ param.value = ""
       THEN /\ layoutResponse' = [NoLayoutResponse EXCEPT !.status = 400,
                                                          !.asked = param]
            /\ UNCHANGED layoutRequest
       ELSE /\ layoutRequest' = [pending |-> TRUE, cardType |-> param.value,
                                 dbCardType |-> dbCardTypeOf(param.value)]
            /\ UNCHANGED layoutResponse
    /\ UNCHANGED <<rateVars, saveVars, sessionVars, editVars>>

\* the count query settles and the response is sent
LayoutSettle(result) ==
    /\ serverUp
    /\ layoutRequest.pending
    /\ layoutResponse' = layoutConfig(layoutRequest, result)
    /\ layoutRequest' = NoLayoutRequest
    /\ UNCHANGED <<rateVars, saveVars, sessionVars, editVars>>

NextLayout ==
    \/ \E param \in CardTypeParams : LayoutRequest(param)
    \/ \E result \in CountOutcomes : LayoutSettle(result)

SpecLayout == Init /\ [][NextLayout]_vars

---------------------------------------------------------------------------
(* POST /save.  A path is a sequence of segments and a segment a sequence   *)
(* of characters, so that the string the handler tests with startsWith can *)
(* be written out character by character.                                  *)

\* __dirname of the server: /a/k
BASE_DIR == << <<"a">>, <<"k">> >>

dot == <<".">>

dotdot == <<".", ".">>

\* filePath values of the request body: whether it has a leading slash, and
\* its segments
FilePaths ==
    { [slash |-> FALSE, segs |-> << <<"p">> >>],                         \* p
      [slash |-> TRUE,  segs |-> << <<"p">> >>],                         \* /p
      [slash |-> FALSE, segs |-> << <<"k">>, <<"p">> >>],                \* k/p
      [slash |-> FALSE, segs |-> << dot, <<"p">> >>],                    \* ./p
      [slash |-> FALSE, segs |-> << <<"k">>, dotdot, <<"p">> >>],        \* k/../p
      [slash |-> FALSE, segs |-> << dot >>],                             \* .
      [slash |-> FALSE, segs |-> << dotdot >>],                          \* ..
      [slash |-> FALSE, segs |-> << dotdot, <<"p">> >>],                 \* ../p
      [slash |-> TRUE,  segs |-> << dotdot, dotdot, <<"p">> >>],         \* /../../p
      [slash |-> FALSE, segs |-> << dotdot, <<"k">>, <<"p">> >>],        \* ../k/p
      [slash |-> FALSE, segs |-> << dotdot, <<"k", "x">> >>],            \* ../kx
      [slash |-> FALSE, segs |-> << dotdot, <<"k", "x">>, <<"p">> >>],   \* ../kx/p
      [slash |-> FALSE, segs |-> << dotdot, <<"j">>, <<"p">> >>] }       \* ../j/p

\* content values of the request body; absent is undefined
Contents == {NoParam, Param(""), Param("<html>")}

\* the request bodies: text JSON.parse rejects, or an object whose filePath
\* and content may be missing
Bodies ==
    { [json |-> FALSE, hasPath |-> FALSE, filePath |-> [slash |-> FALSE, segs |-> <<>>],
       content |-> NoParam] }
    \cup { [json |-> TRUE, hasPath |-> FALSE,
            filePath |-> [slash |-> FALSE, segs |-> <<>>], content |-> c] :
            c \in Contents }
    \cup { [json |-> TRUE, hasPath |-> TRUE, filePath |-> f, content |-> c] :
            f \in FilePaths, c \in Contents }

\* path.normalize on the segments of an absolute path: '.' is dropped and
\* '..' removes the segment before it, or nothing at the root
RECURSIVE normalizeSegs(_, _)
normalizeSegs(segs, acc) ==
    IF segs = <<>> THEN acc
    ELSE LET seg == Head(segs)
         IN  normalizeSegs(Tail(segs),
                 IF seg = dot THEN acc
                 ELSE IF seg = dotdot
                      THEN (IF acc = <<>> THEN acc ELSE SubSeq(acc, 1, Len(acc) - 1))
                      ELSE Append(acc, seg))

\* path.join(BASE_DIR, cleanPath); cleanPath is filePath without its leading slash
join(base, cleanPath) == normalizeSegs(base \o cleanPath, <<>>)

\* the characters of an absolute path
RECURSIVE toString(_)
toString(segs) ==
    IF segs = <<>> THEN <<"/">>
    ELSE IF Len(segs) = 1 THEN <<"/">> \o segs[1]
    ELSE toString(SubSeq(segs, 1, Len(segs) - 1)) \o <<"/">> \o segs[Len(segs)]

\* String.prototype.startsWith
startsWith(str, prefix) ==
    /\ Len(prefix) <= Len(str)
    /\ SubSeq(str, 1, Len(prefix)) = prefix

\* the security check: normalizedFullPath.startsWith(normalizedBaseDir)
allowed(fullPath) ==
    startsWith(toString(normalizeSegs(fullPath, <<>>)),
               toString(normalizeSegs(BASE_DIR, <<>>)))

\* BASE_DIR and the directories above it exist; writing to a directory fails
isDirectory(fullPath) ==
    /\ Len(fullPath) <= Len(BASE_DIR)
    /\ fullPath = SubSeq(BASE_DIR, 1, Len(fullPath))

\* the 'end' listener: the response sent and the file written, if any;
\* fsOk tells whether fs.writeFileSync gets through
save(body, fsOk) ==
    IF ~body.json \/ ~body.hasPath
    THEN [response |-> [NoSaveResponse EXCEPT !.status = 500], written |-> {}]
    ELSE LET fullPath == join(BASE_DIR, body.filePath.segs)
             sent(status) == [status |-> status, target |-> fullPath, resolved |-> TRUE]
         IN  IF ~allowed(fullPath)
             THEN [response |-> sent(403), written |-> {}]
             ELSE IF ~body.content.present \/ body.content.value = ""
             THEN [response |-> sent(400), written |-> {}]
             ELSE IF isDirectory(fullPath) \/ ~fsOk
             THEN [response |-> sent(500), written |-> {}]
             ELSE [response |-> sent(200), written |-> {fullPath}]

Save(body, fsOk) ==
    /\ serverUp
    /\ LET r == save(body, fsOk)
       IN  /\ saveResponse' = r.response
           /\ saved' = saved \cup r.written
    /\ UNCHANGED <<rateVars, layoutVars, sessionVars, editVars>>

NextSave == \E body \in Bodies : \E fsOk \in BOOLEAN : Save(body, fsOk)

SpecSave == Init /\ [][NextSave]_vars

---------------------------------------------------------------------------
(* The session manager.  Of DEFAULT_SESSION the fields the manager itself   *)
(* reads or writes are kept, with selectedCard and cardQuantity; the other *)
(* fields are only ever copied.                                            *)

DEFAULT_SESSION ==
    [sessionId |-> jsNull, createdAt |-> jsNull, lastActivity |-> jsNull,
     currentPage |-> "welcome", language |-> "id",
     selectedCard |-> jsNull, cardQuantity |-> 1,
     offerCost |-> 0, offerTizo |-> 0,
     bonusAccepted |-> jsNull, bonusCost |-> 0, bonusTizo |-> 0,
     totalCost |-> 0, totalTizo |-> 0,
     orderNumber |-> jsNull, transactionComplete |-> FALSE]

\* the values Math.random() contributes to an id
Randoms == {1, 2}

\* how far the clock moves between two calls: a quarter of an hour, or that
\* and a millisecond
Delays == {SESSION_TIMEOUT_MS \div 2, (SESSION_TIMEOUT_MS \div 2) + 1}

\* TZ + timestamp + random part
generateSessionId(t, random) == js([timestamp |-> t, randomPart |-> random])

\* date and time parts + TZ + random part
generateOrderNumber(t, random) == js([at |-> t, randomPart |-> random])

\* localStorage.removeItem(SESSION_STORAGE_KEY)
clearSession(ls) == [ls EXCEPT !.tizo_session = jsNull]

\* getSession expiring a session already at the timeout
getSession_AtTimeout(ls, t) ==
    IF ls.tizo_session.isNull THEN [ret |-> jsNull, ls |-> ls]
    ELSE LET session == ls.tizo_session.value
         IN  IF /\ ~session.lastActivity.isNull
                /\ session.lastActivity.value # 0
                /\ t - session.lastActivity.value >= SESSION_TIMEOUT_MS
             THEN [ret |-> jsNull, ls |-> clearSession(ls)]
             ELSE [ret |-> js(session), ls |-> ls]

\* getSession at time t: what it returns and the storage it leaves
getSession(ls, t) ==
    IF ls.tizo_session.isNull THEN [ret |-> jsNull, ls |-> ls]
    ELSE LET session == ls.tizo_session.value
         IN  IF /\ ~session.lastActivity.isNull
                /\ session.lastActivity.value # 0
                /\ t - session.lastActivity.value > SESSION_TIMEOUT_MS
             THEN [ret |-> jsNull, ls |-> clearSession(ls)]
             ELSE [ret |-> js(session), ls |-> ls]

\* saveSession at time t: the session object as it is left, and the storage
saveSession(session, ls, t) ==
    LET stamped == [session EXCEPT !.lastActivity = js(t)]
    IN  [session |-> stamped, ls |-> [ls EXCEPT !.tizo_session = js(stamped)]]

\* the session startNewSession creates at time t
newSession(ls, t, random) ==
    [DEFAULT_SESSION EXCEPT
        !.sessionId = generateSessionId(t, random),
        !.createdAt = js(t),
        !.lastActivity = js(t),
        !.language = IF ls.tizo_language.isNull \/ ls.tizo_language.value = ""
                     THEN "id"
                     ELSE ls.tizo_language.value]

\* startNewSession resuming a session whose transaction is complete
startNewSession_ResumeComplete(forceNew, ls, t, random) ==
    LET existingSession == getSession(ls, t)
    IN  IF ~existingSession.ret.isNull /\ ~forceNew
        THEN [ret |-> existingSession.ret.value, ls |-> existingSession.ls]
        ELSE LET s == saveSession(newSession(existingSession.ls, t, random),
                                  existingSession.ls, t)
             IN  [ret |-> s.session, ls |-> s.ls]

\* startNewSession(forceNew) at time t: the session returned, the storage left
startNewSession(forceNew, ls, t, random) ==
    LET existingSession == getSession(ls, t)
    IN  IF /\ ~existingSession.ret.isNull
           /\ ~forceNew
           /\ ~existingSession.ret.value.transactionComplete
        THEN [ret |-> existingSession.ret.value, ls |-> existingSession.ls]
        ELSE LET s == saveSession(newSession(existingSession.ls, t, random),
                                  existingSession.ls, t)
             IN  [ret |-> s.session, ls |-> s.ls]

\* Object.assign(session, updates), for updates naming fields of the session
assign(session, updates) ==
    [k \in DOMAIN session |->
        IF k \in DOMAIN updates THEN updates[k] ELSE session[k]]

\* session.bonusAccepted ? ... : ...
accepted(session) == ~session.bonusAccepted.isNull /\ session.bonusAccepted.value

\* updateSession not recalculating when only bonusAccepted is updated
updateSession_NoBonusAccepted(updates, ls, t, random) ==
    LET got == getSession(ls, t)
        started == IF got.ret.isNull
                   THEN startNewSession(TRUE, got.ls, t, random)
                   ELSE [ret |-> got.ret.value, ls |-> got.ls]
        merged == assign(started.ret, updates)
        withCost ==
            IF {"offerCost", "bonusCost"} \cap DOMAIN updates # {}
            THEN [merged EXCEPT !.totalCost =
                     merged.offerCost + (IF accepted(merged) THEN merged.bonusCost ELSE 0)]
            ELSE merged
        withTizo ==
            IF {"offerTizo", "bonusTizo"} \cap DOMAIN updates # {}
            THEN [withCost EXCEPT !.totalTizo =
                     withCost.offerTizo + (IF accepted(withCost) THEN withCost.bonusTizo ELSE 0)]
            ELSE withCost
        s == saveSession(withTizo, started.ls, t)
    IN  [ret |-> s.session, ls |-> s.ls]

\* updateSession(updates) at time t: the session returned, the storage left
updateSession(updates, ls, t, random) ==
    LET got == getSession(ls, t)
        started == IF got.ret.isNull
                   THEN startNewSession(TRUE, got.ls, t, random)
                   ELSE [ret |-> got.ret.value, ls |-> got.ls]
        merged == assign(started.ret, updates)
        withCost ==
            IF {"offerCost", "bonusCost", "bonusAccepted"} \cap DOMAIN updates # {}
            THEN [merged EXCEPT !.totalCost =
                     merged.offerCost + (IF accepted(merged) THEN merged.bonusCost ELSE 0)]
            ELSE merged
        withTizo ==
            IF {"offerTizo", "bonusTizo", "bonusAccepted"} \cap DOMAIN updates # {}
            THEN [withCost EXCEPT !.totalTizo =
                     withCost.offerTizo + (IF accepted(withCost) THEN withCost.bonusTizo ELSE 0)]
            ELSE withCost
        s == saveSession(withTizo, started.ls, t)
    IN  [ret |-> s.session, ls |-> s.ls]

\* setSessionValue(key, value)
setSessionValue(key, value, ls, t, random) ==
    updateSession(key :> value, ls, t, random)

\* setCurrentPage(pageName)
setCurrentPage(pageName, ls, t, random) ==
    updateSession([currentPage |-> pageName], ls, t, random)

\* completeTransaction marking nothing as complete
completeTransaction_OrderNumberOnly(ls, t, random, orderRandom) ==
    LET orderNumber == generateOrderNumber(t, orderRandom)
        u == updateSession([orderNumber |-> orderNumber], ls, t, random)
    IN  [ret |-> orderNumber, ls |-> u.ls]

\* completeTransaction(): the order number returned, the storage left
completeTransaction(ls, t, random, orderRandom) ==
    LET orderNumber == generateOrderNumber(t, orderRandom)
        u == updateSession([orderNumber |-> orderNumber, transactionComplete |-> TRUE],
                           ls, t, random)
    IN  [ret |-> orderNumber, ls |-> u.ls]

\* hasActiveSession(): the boolean returned, the storage getSession leaves
hasActiveSession(ls, t) ==
    LET got == getSession(ls, t)
    IN  [ret |-> ~got.ret.isNull /\ ~got.ret.value.transactionComplete,
         ls |-> got.ls]

\* time passes on the kiosk
Tick(delay) ==
    /\ now + delay <= StartTime + (MaxTicks * ((SESSION_TIMEOUT_MS \div 2) + 1))
    /\ now' = now + delay
    /\ call' = NoCall
    /\ UNCHANGED <<localStorage, rateVars, layoutVars, saveVars, editVars>>

\* saveLanguage(lang) of the language script
SaveLanguage(lang) ==
    /\ localStorage' = [localStorage EXCEPT !.tizo_language = js(lang)]
    /\ call' = NoCall
    /\ UNCHANGED <<now, rateVars, layoutVars, saveVars, editVars>>

Called(fn, forceNew, ret, ls) ==
    /\ localStorage' = ls
    /\ call' = [fn |-> fn, forceNew |-> forceNew, ret |-> ret,
                before |-> localStorage.tizo_session, active |-> FALSE]
    /\ UNCHANGED <<now, rateVars, layoutVars, saveVars, editVars>>

GetSession ==
    LET r == getSession(localStorage, now)
    IN  Called("getSession", FALSE, r.ret, r.ls)

\* a page saves the session object it read
SaveSession ==
    /\ ~localStorage.tizo_session.isNull
    /\ LET r == saveSession(localStorage.tizo_session.value, localStorage, now)
       IN  Called("saveSession", FALSE, js(r.session), r.ls)

StartNewSession(forceNew, random) ==
    LET r == startNewSession(forceNew, localStorage, now, random)
    IN  Called("startNewSession", forceNew, js(r.ret), r.ls)

UpdateSession(updates, random) ==
    LET r == updateSession(updates, localStorage, now, random)
    IN  Called("updateSession", FALSE, js(r.ret), r.ls)

SetSessionValue(key, value, random) ==
    LET r == setSessionValue(key, value, localStorage, now, random)
    IN  Called("setSessionValue", FALSE, jsNull, r.ls)

SetCurrentPage(pageName, random) ==
    LET r == setCurrentPage(pageName, localStorage, now, random)
    IN  Called("setCurrentPage", FALSE, jsNull, r.ls)

CompleteTransaction(random, orderRandom) ==
    LET r == completeTransaction(localStorage, now, random, orderRandom)
    IN  Called("completeTransaction", FALSE, r.ret, r.ls)

\* hasActiveSession(): its boolean answer is kept in call.active
HasActiveSession ==
    LET r == hasActiveSession(localStorage, now)
    IN  /\ localStorage' = r.ls
        /\ call' = [NoCall EXCEPT !.fn = "hasActiveSession",
                                  !.before = localStorage.tizo_session,
                                  !.active = r.ret]
        /\ UNCHANGED <<now, rateVars, layoutVars, saveVars, editVars>>

Languages == {"id", "en"}

\* the session's life cycle: it is started, read, saved and completed while
\* time passes
NextSession ==
    \/ \E delay \in Delays : Tick(delay)
    \/ \E lang \in Languages : SaveLanguage(lang)
    \/ GetSession
    \/ SaveSession
    \/ \E forceNew \in BOOLEAN : \E random \in Randoms : StartNewSession(forceNew, random)
    \/ \E random \in Randoms : \E orderRandom \in Randoms :
          CompleteTransaction(random, orderRandom)

SpecSession == Init /\ [][NextSession]_vars

\* the session's life cycle with the pages asking whether a session is
\* active and recording the page shown
NextTransaction ==
    \/ NextSession
    \/ HasActiveSession
    \/ SetCurrentPage("print", 1)

SpecTransaction == Init /\ [][NextTransaction]_vars

---------------------------------------------------------------------------
(* migrateOldData.  The values of the old localStorage keys are strings,   *)
(* written here as sequences of characters.                                *)

\* Object.entries(oldKeys), in the order of the object literal
oldKeys ==
    << <<"selectedCard", "selectedCard">>,
       <<"cardQuantity", "cardQuantity">>,
       <<"topupAmount", "offerCost">>,
       <<"topupTizo", "offerTizo">>,
       <<"scratchAmount", "bonusCost">>,
       <<"scratchTizo", "bonusTizo">>,
       <<"cardType", "selectedCard">> >>

\* what the older pages left under each key, when they left anything
LegacyValue ==
    [selectedCard |-> <<"r", "e", "d">>,
     cardQuantity |-> <<"2">>,
     topupAmount |-> <<"5", "0">>,
     topupTizo |-> <<"6", "0">>,
     scratchAmount |-> <<"1", "0">>,
     scratchTizo |-> <<"1", "2">>,
     cardType |-> <<"g", "o", "l", "d">>]

Digits == {"0", "1", "2", "3", "4", "5", "6", "7", "8", "9"}

digitValue(c) ==
    CASE c = "0" -> 0 [] c = "1" -> 1 [] c = "2" -> 2 [] c = "3" -> 3
      [] c = "4" -> 4 [] c = "5" -> 5 [] c = "6" -> 6 [] c = "7" -> 7
      [] c = "8" -> 8 [] c = "9" -> 9

\* isNaN(str) for a non-empty string of letters and digits
isNaN(str) == \E i \in 1..Len(str) : str[i] \notin Digits

\* parseInt(str) for a non-empty string of digits
RECURSIVE parseInt(_)
parseInt(str) ==
    IF str = <<>> THEN 0
    ELSE (10 * parseInt(SubSeq(str, 1, Len(str) - 1))) + digitValue(str[Len(str)])

\* the session fields that hold null or an object here; a number is never
\* === null
NullableFields == {"sessionId", "createdAt", "lastActivity", "selectedCard",
                   "bonusAccepted", "orderNumber"}

isNull(session, key) == key \in NullableFields /\ session[key].isNull

\* updates[newKey] = value
put(updates, newKey, value) ==
    [k \in DOMAIN updates \cup {newKey} |->
        IF k = newKey THEN value ELSE updates[k]]

\* the for loop over Object.entries(oldKeys), from entry i on
RECURSIVE migrateEntries(_, _, _, _)
migrateEntries(i, session, ls, updates) ==
    IF i > Len(oldKeys) THEN updates
    ELSE LET oldKey == oldKeys[i][1]
             newKey == oldKeys[i][2]
             oldValue == ls[oldKey]
         IN  migrateEntries(i + 1, session, ls,
                 IF ~oldValue.isNull /\ isNull(session, newKey)
                 THEN put(updates, newKey,
                          IF isNaN(oldValue.value)
                          THEN js(oldValue.value)
                          ELSE parseInt(oldValue.value))
                 ELSE updates)

\* migrateOldData() at time t: the storage it leaves
migrateOldData(ls, t, random) ==
    LET got == getSession(ls, t)
    IN  IF got.ret.isNull THEN [ls |-> got.ls]
        ELSE LET updates == migrateEntries(1, got.ret.value, got.ls, <<>>)
             IN  IF DOMAIN updates # {}
                 THEN [ls |-> updateSession(updates, got.ls, t, random).ls]
                 ELSE [ls |-> got.ls]

\* an older page stored a value under one of the old keys
SetLegacyItem(oldKey) ==
    /\ localStorage' = [localStorage EXCEPT ![oldKey] = js(LegacyValue[oldKey])]
    /\ call' = NoCall
    /\ UNCHANGED <<now, rateVars, layoutVars, saveVars, editVars>>

MigrateOldData(random) ==
    LET r == migrateOldData(localStorage, now, random)
    IN  Called("migrateOldData", FALSE, jsNull, r.ls)

\* old keys are found in storage, a session is started and migrated
NextMigrate ==
    \/ \E oldKey \in DOMAIN LegacyValue : SetLegacyItem(oldKey)
    \/ \E forceNew \in BOOLEAN : StartNewSession(forceNew, 1)
    \/ MigrateOldData(1)

SpecMigrate == Init /\ [][NextMigrate]_vars

\* the objects the pages pass to updateSession
SessionUpdates ==
    { [offerCost |-> 50, offerTizo |-> 60],
      [bonusAccepted |-> js(TRUE), bonusCost |-> 10, bonusTizo |-> 12],
      [bonusAccepted |-> js(FALSE)] }

\* the numeric fields set one at a time, and the values they are given
AmountKeys == {"offerCost", "offerTizo", "bonusCost", "bonusTizo"}

AmountValues == {60}

PageNames == {"payment"}

\* the session's fields are updated, one or several at a time, with no update
\* naming totalCost or totalTizo; in between the session may time out
NextTotals ==
    \/ Tick(SESSION_TIMEOUT_MS + 1)
    \/ \E forceNew \in BOOLEAN : StartNewSession(forceNew, 1)
    \/ \E updates \in SessionUpdates : UpdateSession(updates, 1)
    \/ \E key \in AmountKeys : \E value \in AmountValues : SetSessionValue(key, value, 1)
    \/ \E b \in BOOLEAN : SetSessionValue("bonusAccepted", js(b), 1)
    \/ \E pageName \in PageNames : SetCurrentPage(pageName, 1)
    \/ CompleteTransaction(1, 1)

SpecTotals == Init /\ [][NextTotals]_vars

---------------------------------------------------------------------------
(* The edit mode of the pages: elements are added, the states are saved to  *)
(* localStorage and the page to its HTML file, and the page is loaded      *)
(* again.                                                                  *)

\* elementStates[id] = state
withState(states, id, state) ==
    [i \in DOMAIN states \cup {id} |-> IF i = id THEN state ELSE states[i]]

\* delete elementStates[id] for every id with isAdded
withoutAdded(states) ==
    [id \in { i \in DOMAIN states : ~states[i].isAdded } |-> states[id]]

\* saveChanges(): localStorage.setItem('editMode_' + pageId, ...)
saveChanges(items, states) == [items EXCEPT ![editModeKey] = js(states)]

\* toggleEditMode(): on leaving edit mode saveChanges() and autoSaveToServer()
\* up to its fetch, which sends the document as it is
ToggleEditMode ==
    /\ ~editPc.saving
    /\ IF ~editPc.editMode
       THEN /\ editPc' = [editPc EXCEPT !.editMode = TRUE, !.event = "editOn"]
            /\ UNCHANGED editItems
       ELSE /\ editItems' = saveChanges(editItems, elementStates)
            /\ editPc' = IF DOMAIN elementStates = {}
                         THEN [editPc EXCEPT !.editMode = FALSE, !.event = "editOff"]
                         ELSE [editMode |-> FALSE, saving |-> TRUE, content |-> dom,
                               event |-> "saving"]
    /\ UNCHANGED <<elementStates, htmlFile, dom, layer>>
    /\ UNCHANGED <<rateVars, layoutVars, saveVars, sessionVars>>

\* createMediaElement: a new element is appended and gets its state
AddElement(id) ==
    /\ editPc.editMode
    /\ id \notin DOMAIN elementStates
    /\ dom[id] = 0 /\ htmlFile[id] = 0
    /\ dom' = [dom EXCEPT ![id] = 1]
    /\ elementStates' = withState(elementStates, id, [isAdded |-> TRUE])
    /\ editPc' = [editPc EXCEPT !.event = "added"]
    /\ UNCHANGED <<editItems, htmlFile, layer>>
    /\ UNCHANGED <<rateVars, layoutVars, saveVars, sessionVars>>

\* an element of the page is resized or moved and gets its state
ChangeElement(id) ==
    /\ editPc.editMode
    /\ id \notin DOMAIN elementStates
    /\ elementStates' = withState(elementStates, id, [isAdded |-> FALSE])
    /\ editPc' = [editPc EXCEPT !.event = "changed"]
    /\ UNCHANGED <<editItems, htmlFile, dom, layer>>
    /\ UNCHANGED <<rateVars, layoutVars, saveVars, sessionVars>>

\* what becomes of the fetch of autoSaveToServer
FetchOutcomes == {"ok", "notOk", "failed"}

\* autoSaveToServer() after its await
SaveSettle(outcome) ==
    /\ editPc.saving
    /\ IF outcome = "ok"
       THEN /\ htmlFile' = editPc.content
            /\ elementStates' = withoutAdded(elementStates)
            /\ editItems' = [editItems EXCEPT ![editStatesKey] = jsNull]
            /\ editPc' = [editPc EXCEPT !.saving = FALSE, !.event = "saved"]
       ELSE /\ editPc' = [editPc EXCEPT !.saving = FALSE, !.event = "saveFailed"]
            /\ UNCHANGED <<htmlFile, elementStates, editItems>>
    /\ UNCHANGED <<dom, layer>>
    /\ UNCHANGED <<rateVars, layoutVars, saveVars, sessionVars>>

\* the elements loadChanges() recreates
recreated(states, id) == id \in DOMAIN states /\ states[id].isAdded

\* the page is opened again from its file: initEditMode() with loadChanges()
LoadPage ==
    /\ ~editPc.saving
    /\ LET item == editItems[editModeKey]
           loaded == IF item.isNull THEN NoStates ELSE item.value
       IN  /\ \A id \in AddedIds :
                 htmlFile[id] + (IF recreated(loaded, id) THEN 1 ELSE 0) <= MaxCopies
           /\ elementStates' = loaded
           /\ dom' = [id \in AddedIds |->
                         htmlFile[id] + (IF recreated(loaded, id) THEN 1 ELSE 0)]
    /\ editPc' = [NoEditPc EXCEPT !.event = "loaded"]
    /\ UNCHANGED <<editItems, htmlFile, layer>>
    /\ UNCHANGED <<rateVars, layoutVars, saveVars, sessionVars>>

NextEdit ==
    \/ ToggleEditMode
    \/ \E id \in AddedIds : AddElement(id)
    \/ \E id \in ExistingIds : ChangeElement(id)
    \/ \E outcome \in FetchOutcomes : SaveSettle(outcome)
    \/ LoadPage

SpecEdit == Init /\ [][NextEdit]_vars

---------------------------------------------------------------------------
(* changeLayer on the selected element.  layer.zIndex is                   *)
(* elementStates[id].zIndex (jsNull for undefined) and layer.style the     *)
(* computed z-index of the element (jsNull for 'auto').                    *)

\* the computed z-index of an element when it is selected: auto, or a number
ComputedZIndexes == {jsNull, js(0), js(5), js(50)}

Deltas == {-1, 1}

\* Math.max(0, Math.min(1000, newZIndex))
clamp(newZIndex) ==
    IF newZIndex > 1000 THEN 1000
    ELSE IF newZIndex < 0 THEN 0
    ELSE newZIndex

\* elementStates[id].zIndex || parseInt(getComputedStyle(el).zIndex) || 50
currentZIndexOf(zIndex, style) ==
    IF ~zIndex.isNull /\ zIndex.value # 0 THEN zIndex.value
    ELSE IF ~style.isNull /\ style.value # 0 THEN style.value
    ELSE 50

\* changeLayer(delta) on an element with the given state: the new z-index
changeLayer(delta, hasState, zIndex, style) ==
    LET stateZIndex == IF hasState THEN zIndex ELSE js(0)
        currentZIndex == currentZIndexOf(stateZIndex, style)
    IN  clamp(currentZIndex + (delta * 10))

\* an element without a state of its own is selected
SelectElement(style) ==
    /\ layer' = [NoLayer EXCEPT !.selected = TRUE, !.style = style]
    /\ UNCHANGED <<elementStates, editItems, htmlFile, dom, editPc>>
    /\ UNCHANGED <<rateVars, layoutVars, saveVars, sessionVars>>

\* changeSize gives the selected element a state that has no zIndex
ChangeSize ==
    /\ layer.selected
    /\ ~layer.hasState
    /\ layer' = [layer EXCEPT !.hasState = TRUE, !.delta = 0, !.before = jsNull]
    /\ UNCHANGED <<elementStates, editItems, htmlFile, dom, editPc>>
    /\ UNCHANGED <<rateVars, layoutVars, saveVars, sessionVars>>

ChangeLayer(delta) ==
    /\ layer.selected
    /\ LET newZIndex == changeLayer(delta, layer.hasState, layer.zIndex, layer.style)
       IN  layer' = [selected |-> TRUE, hasState |-> TRUE,
                     zIndex |-> js(newZIndex), style |-> js(newZIndex),
                     delta |-> delta, before |-> layer.zIndex]
    /\ UNCHANGED <<elementStates, editItems, htmlFile, dom, editPc>>
    /\ UNCHANGED <<rateVars, layoutVars, saveVars, sessionVars>>

NextLayer ==
    \/ \E style \in ComputedZIndexes : SelectElement(style)
    \/ ChangeSize
    \/ \E delta \in Deltas : ChangeLayer(delta)

SpecLayer == Init /\ [][NextLayer]_vars

---------------------------------------------------------------------------
(* Properties of calculateCustomTizo *)

Converted == last.kind = "convert"

HasOffer(cache, unit, credit) ==
    /\ ~cache.isNull
    /\ [topup_rb |-> unit, tizo_value |-> credit] \in Range(cache.rows)

\* the rows of the cache other than the 550 -> 1020 and 40 -> 40 tiers
OtherOffers(cache) ==
    Range(cache.rows) \ { [topup_rb |-> 550, tizo_value |-> 1020],
                          [topup_rb |-> 40, tizo_value |-> 40] }

DocumentedCache(cache) ==
    /\ HasOffer(cache, 550, 1020)
    /\ HasOffer(cache, 40, 40)
    /\ \A o \in OtherOffers(cache) : o.topup_rb < BASE_UNIT

\* C1 as stated: with the tiers 550 -> 1020 and 40 -> 40 in the cache and any
\* other tiers below 600, calculateCustomTizo(1790) returns 3460.
C1_AnyOtherTiers ==
    (Converted /\ last.amountRb = 1790 /\ DocumentedCache(last.before))
        => last.ret = 3460

\* C1 amended: with the tiers 550 -> 1020 and 40 -> 40 in the cache and any
\* other tiers whose unit is below 600, is not 40 and is not in 550..590,
\* calculateCustomTizo(1790) returns 3460.
C1_DocumentedExample ==
    (/\ Converted /\ last.amountRb = 1790
     /\ DocumentedCache(last.before)
     /\ \A o \in OtherOffers(last.before) :
           o.topup_rb > 0 /\ o.topup_rb # 40 /\ o.topup_rb \notin 550..590)
        => last.ret = 3460

\* the documented example made with a third tier in the cache
C1_Witness ==
    /\ Converted /\ last.amountRb = 1790
    /\ DocumentedCache(last.before)
    /\ OtherOffers(last.before) = { [topup_rb |-> 100, tizo_value |-> 120] }
    /\ last.ret = 3460

\* C2: for every k >= 0 and every cache, calculateCustomTizo(600 * k) returns
\* 1200 * k; in particular 0 -> 0, 600 -> 1200 and 1200 -> 2400.
C2_BaseUnitMultiples ==
    (Converted /\ last.amountRb >= 0 /\ last.amountRb % BASE_UNIT = 0)
        => last.ret = BASE_CREDIT * (last.amountRb \div BASE_UNIT)

\* 1200 converted against a cache that holds tiers below 600
C2_Witness ==
    /\ Converted /\ last.amountRb = 1200 /\ last.ret = 2400
    /\ HasOffer(last.before, 40, 40)
    /\ HasOffer(last.before, 550, 1020)

\* the three-step policy, computed from the set of tiers: the base units,
\* then the tiers below 600 from the largest unit down, each as often as it
\* fits, then the leftover 1:1
RECURSIVE GreedyByUnit(_, _, _)
GreedyByUnit(tiers, total, remaining) ==
    IF tiers = {} THEN total + remaining
    ELSE LET t == CHOOSE x \in tiers : \A y \in tiers : y.topup_rb <= x.topup_rb
             n == remaining \div t.topup_rb
         IN  GreedyByUnit(tiers \ {t}, total + n * t.tizo_value,
                          remaining - n * t.topup_rb)

GreedyReference(a, cache) ==
    GreedyByUnit({ o \in Range(cache.rows) : o.topup_rb < 600 },
                 1200 * (a \div 600), a % 600)

DistinctUnits(cache) ==
    \A i \in 1..Len(cache.rows) : \A j \in 1..Len(cache.rows) :
        i # j => cache.rows[i].topup_rb # cache.rows[j].topup_rb

\* C3: for every amount a >= 0 and every cache with distinct units, in
\* whatever order it is stored, calculateCustomTizo(a) is the greedy
\* three-step result: base units, tiers below 600 in descending unit order,
\* leftover 1:1.
C3_GreedyPolicy ==
    (Converted /\ last.amountRb >= 0 /\ DistinctUnits(last.before))
        => last.ret = GreedyReference(last.amountRb, last.before)

\* a cache stored out of order whose largest tier is the worse choice: 590
\* gives 560 -> 600 plus 30, where 550 -> 1020 plus 40 -> 40 would give 1060
C3_Witness ==
    /\ Converted /\ last.amountRb = 590 /\ last.ret = 630
    /\ last.before.rows = << [topup_rb |-> 550, tizo_value |-> 1020],
                             [topup_rb |-> 560, tizo_value |-> 600],
                             [topup_rb |-> 40, tizo_value |-> 40] >>

\* C4: a negative amount is rejected with an InvalidAmount error before any
\* computation; calculateCustomTizo never returns a credit value for it.
C4_NegativeRejected ==
    (Converted /\ last.amountRb < 0) => last.threw

\* C5: with the cache null, empty, or holding no tier whose unit is at most
\* a mod 600, calculateCustomTizo(a) returns 1200 * floor(a / 600) + a mod 600
\* and raises no error.
C5_FallbackOneToOne ==
    (/\ Converted /\ last.amountRb >= 0
     /\ \A o \in Range(last.before.rows) :
           o.topup_rb > (last.amountRb % BASE_UNIT))
        => /\ last.ret = (BASE_CREDIT * (last.amountRb \div BASE_UNIT))
                            + (last.amountRb % BASE_UNIT)
           /\ ~last.threw

\* 590 against a cache loaded empty, and 50 against tiers that are all above 50
C5_WitnessEmpty ==
    /\ Converted /\ last.amountRb = 590 /\ last.ret = 590
    /\ last.before = array(<<>>)

C5_Witness ==
    /\ Converted /\ last.amountRb = 50 /\ last.ret = 50
    /\ HasOffer(last.before, 100, 120)
    /\ HasOffer(last.before, 550, 1020)

\* C6: for every amount a >= 0 and every cache a load can have installed,
\* calculateCustomTizo(a) >= a.
C6_NeverBelowInput ==
    (Converted /\ last.amountRb >= 0) => last.ret >= last.amountRb

\* the cache without its entries of 600 Rb and above
Below600Only(cache) ==
    IF cache.isNull THEN cache ELSE array(SelectSeq(cache.rows, below600))

\* C7: entries with topup_rb >= 600 never influence a conversion: the value
\* returned with cache C is the value returned with C cut down to its
\* entries below 600.
C7_IgnoresBaseAndAbove ==
    Converted =>
        last.ret = calculateCustomTizo(last.amountRb, Below600Only(last.before)).ret

\* 1790 converted with a 700 Rb entry next to tiers below 600
C7_Witness ==
    /\ Converted /\ last.amountRb = 1790
    /\ HasOffer(last.before, 700, 1500)
    /\ HasOffer(last.before, 550, 1020)
    /\ last.ret = 2400 + 1020 + 40

\* C8: a call leaves the cache, its entries and their order, as it was, and
\* the same amount converted again returns the same value.
C8_NoSideEffect ==
    Converted =>
        /\ upsellOffersCache = last.before
        /\ calculateCustomTizo(last.amountRb, upsellOffersCache).ret = last.ret

\* a call that ran the greedy pass over a cache stored in ascending order
C8_Witness ==
    /\ Converted /\ last.amountRb = 590
    /\ upsellOffersCache.rows = << [topup_rb |-> 40, tizo_value |-> 40],
                                   [topup_rb |-> 550, tizo_value |-> 1020],
                                   [topup_rb |-> 700, tizo_value |-> 1500] >>
    /\ last.ret = 1020 + 40

---------------------------------------------------------------------------
(* Properties of loadUpsellOffersCache *)

\* C9: after a load that succeeds, the cache is exactly the rows the query
\* returned, in ascending topup_rb order, with nothing of the previous
\* contents left.
C9_LoadReplaces ==
    last.kind = "loadOk" =>
        /\ upsellOffersCache = array(last.rows)
        /\ IsAscending(upsellOffersCache.rows)

\* a second load that replaced a cache of other rows
C9_Witness ==
    /\ last.kind = "loadOk"
    /\ ~last.before.isNull
    /\ Len(last.before.rows) > 0
    /\ Range(last.before.rows) \cap Range(last.rows) = {}
    /\ Len(last.rows) > 1

\* C10: after a load that fails, the cache is what it was before the call
\* and the process is still up to serve conversions from it.
C10_FailedLoadKeepsCache ==
    last.kind = "loadFail" =>
        /\ upsellOffersCache = last.before
        /\ serverUp

\* a load that failed with rows of an earlier load in the cache
C10_Witness ==
    /\ last.kind = "loadFail"
    /\ ~upsellOffersCache.isNull
    /\ Len(upsellOffersCache.rows) > 0
    /\ serverUp

\* C11: a load that fails signals the failure to its caller: the promise the
\* call returned is rejected, where that of a load that succeeds is fulfilled.
C11_FailedLoadSignalled ==
    last.kind = "loadFail" => last.settled = "rejected"

\* C12: a load whose source answers with malformed rows is treated as a
\* failure: the cache keeps its previous contents and never holds such a row.
C12_MalformedRowsRefused ==
    /\ (last.kind = "loadOk" /\ \E o \in Range(last.rows) : IsMalformed(o))
          => upsellOffersCache = last.before
    /\ \A o \in Range(upsellOffersCache.rows) : ~IsMalformed(o)

\* C13: whatever the interleaving of loads and conversions, the cache changes
\* only by a load that succeeded putting its rows in place of all that was
\* there, and a conversion reads one cache from start to end: what it read
\* is the cache before the call and the cache after it.
C13_NeverTorn ==
    [][ /\ \/ upsellOffersCache' = upsellOffersCache
           \/ last'.kind = "loadOk" /\ upsellOffersCache' = array(last'.rows)
        /\ last'.kind = "convert" =>
              /\ last'.before = upsellOffersCache
              /\ upsellOffersCache' = upsellOffersCache ]_vars

\* a conversion over the rows of one load, made while another load is in flight
C13_Witness ==
    /\ Converted /\ last.amountRb = 590 /\ last.ret = 1060
    /\ \E l \in LoadIds : loadPc[l] = "awaiting"
    /\ \E l \in LoadIds : loadPc[l] = "returned"
    /\ Len(upsellOffersCache.rows) = 2

AllLoadsReturned == \A l \in LoadIds : loadPc[l] = "returned"

\* C14: when loads race, the cache is at every moment, and so once all of
\* them have finished, the rows of the load that succeeded last; a load that
\* failed changes nothing.
C14_LastWriteWins ==
    /\ upsellOffersCache = lastWrite
    /\ AllLoadsReturned => Range(upsellOffersCache.rows) = Range(lastWrite.rows)

\* all racing loads have finished, the last of them failed after another had
\* put its rows in the cache
C14_Witness ==
    /\ AllLoadsReturned
    /\ last.kind = "loadFail"
    /\ ~upsellOffersCache.isNull
    /\ Len(upsellOffersCache.rows) > 1
    /\ upsellOffersCache = lastWrite

\* C15: every successful response of /api/custom-topup-upsell, from the range
\* table or from the fallback, carries customTizo = convert(customAmount),
\* upsellBox1.tizo = convert(upsellBox1.rb) and upsellBox2.tizo =
\* convert(upsellBox2.rb), all three over the one cache that was in place when
\* the response was built, loads completed during the request included.
C15_UpsellUsesConvert ==
    (last.kind = "upsell" /\ last.response.status = 200) =>
        LET resp == last.response
            convert(a) == calculateCustomTizo(a, last.before).ret
        IN  /\ resp.customTizo = convert(resp.customAmount)
            /\ resp.upsellBox1.tizo = convert(resp.upsellBox1.rb)
            /\ resp.upsellBox2.tizo = convert(resp.upsellBox2.rb)
            /\ upsellOffersCache = last.before

\* a fallback response built after a load put tiers in the cache while the
\* request was waiting: no load had returned when the request came in
C15_Witness ==
    /\ last.kind = "upsell" /\ last.response.status = 200
    /\ last.response.isFallback
    /\ last.amountRb = 1790
    /\ last.loadsReturned = 0
    /\ HasOffer(last.before, 550, 1020)
    /\ last.response.upsellBox1 = [rb |-> 1800, tizo |-> 3600]
    /\ last.response.upsellBox2.rb = 1850

---------------------------------------------------------------------------
(* Properties of GET /api/layout-config *)

C16_WitnessNoCardType ==
    /\ layoutResponse.status = 400
    /\ ~layoutResponse.asked.present

---------------------------------------------------------------------------
(* Properties of POST /save *)

\* the path lies in the directory tree of BASE_DIR: its leading segments are
\* those of BASE_DIR
InsideBaseDir(fullPath) ==
    /\ Len(BASE_DIR) <= Len(fullPath)
    /\ SubSeq(fullPath, 1, Len(BASE_DIR)) = BASE_DIR

\* C17: every file POST /save writes lies inside the BASE_DIR tree: a request
\* whose filePath resolves outside it writes nothing and is not answered 200.
C17_WritesOnlyInsideBaseDir ==
    /\ \A fullPath \in saved : InsideBaseDir(fullPath)
    /\ (saveResponse.resolved /\ ~InsideBaseDir(saveResponse.target)) =>
          saveResponse.status # 200

\* a file was written in the sibling directory /a/kx
C17_SiblingWritten ==
    /\ << <<"a">>, <<"k", "x">>, <<"p">> >> \in saved
    /\ saveResponse.status = 200

---------------------------------------------------------------------------
(* Properties of the session manager *)

\* the session was last active more than 30 minutes before t
Expired(session, t) ==
    /\ ~session.lastActivity.isNull
    /\ t - session.lastActivity.value > 30 * 60 * 1000

C18_WitnessAtTimeout ==
    /\ call.fn = "getSession" /\ ~call.before.isNull
    /\ now - call.before.value.lastActivity.value = 30 * 60 * 1000
    /\ call.ret = call.before

\* startNewSession(forceNew) found a session it resumes
Resumable ==
    /\ ~call.before.isNull
    /\ ~Expired(call.before.value, now)
    /\ ~call.before.value.transactionComplete
    /\ ~call.forceNew

C19_WitnessResumed ==
    /\ call.fn = "startNewSession" /\ Resumable
    /\ call.ret = call.before
    /\ now - call.before.value.lastActivity.value = 30 * 60 * 1000

\* C20: the stored session's totals are the offer amounts plus, when the bonus
\* is accepted, the bonus amounts.
C20_TotalsInvariant ==
    ~localStorage.tizo_session.isNull =>
        LET session == localStorage.tizo_session.value
            bonus == ~session.bonusAccepted.isNull /\ session.bonusAccepted.value
        IN  /\ session.totalCost =
                  session.offerCost + (IF bonus THEN session.bonusCost ELSE 0)
            /\ session.totalTizo =
                  session.offerTizo + (IF bonus THEN session.bonusTizo ELSE 0)

\* the bonus was accepted by setSessionValue after its amounts were set, and
\* the totals hold it
C20_Witness ==
    /\ call.fn = "setSessionValue"
    /\ ~call.before.isNull
    /\ call.before.value.bonusAccepted = js(FALSE)
    /\ call.before.value.bonusCost = 10
    /\ localStorage.tizo_session.value.bonusAccepted = js(TRUE)
    /\ localStorage.tizo_session.value.offerCost = 50
    /\ localStorage.tizo_session.value.totalCost = 60
    /\ localStorage.tizo_session.value.totalTizo = 72

\* what holds right after a call, for C21
C21_AfterCall ==
    LET stored == localStorage.tizo_session
    IN  /\ call.fn = "completeTransaction" =>
              /\ ~call.ret.isNull
              /\ call.ret.value.at = now
              /\ ~stored.isNull
              /\ stored.value.orderNumber = call.ret
              /\ stored.value.transactionComplete
              /\ (~call.before.isNull /\ ~Expired(call.before.value, now)) =>
                    stored.value = [call.before.value EXCEPT
                                       !.orderNumber = call.ret,
                                       !.transactionComplete = TRUE,
                                       !.lastActivity = js(now)]
        /\ (call.fn = "hasActiveSession" /\ ~call.before.isNull
                /\ call.before.value.transactionComplete) => ~call.active
        /\ (call.fn = "startNewSession" /\ ~call.forceNew /\ ~call.before.isNull
                /\ call.before.value.transactionComplete) =>
              /\ stored = call.ret
              /\ call.ret # call.before
              /\ call.ret.value.createdAt = js(now)
              /\ call.ret.value.orderNumber = jsNull
              /\ ~call.ret.value.transactionComplete

\* a step that starts no new session leaves a completed session completed,
\* with hasActiveSession() false
C21_StaysComplete ==
    LET stored == localStorage.tizo_session
        after == localStorage'.tizo_session
    IN  (/\ ~stored.isNull /\ stored.value.transactionComplete
         /\ ~after.isNull
         /\ call'.fn # "startNewSession"
         /\ after.value.sessionId = stored.value.sessionId
         /\ after.value.createdAt = stored.value.createdAt)
        => /\ after.value.transactionComplete
           /\ ~hasActiveSession(localStorage', now').ret

C21_WitnessNotResumed ==
    /\ call.fn = "startNewSession" /\ ~call.forceNew
    /\ ~call.before.isNull /\ call.before.value.transactionComplete
    /\ ~Expired(call.before.value, now)
    /\ ~call.ret.value.transactionComplete

\* the session holds none of the legacy fields yet: they are as startNewSession
\* made them
Unset(session, key) == session[key] = DEFAULT_SESSION[key]

\* C22: migrateOldData on a fresh session copies every legacy key that is
\* present to its session field, numeric strings as integers: topupAmount to
\* offerCost, topupTizo to offerTizo, scratchAmount to bonusCost, scratchTizo to
\* bonusTizo, cardQuantity to cardQuantity, selectedCard or cardType to
\* selectedCard.
C22_LegacyMigrated ==
    (/\ call.fn = "migrateOldData"
     /\ ~call.before.isNull
     /\ ~Expired(call.before.value, now)) =>
        LET before == call.before.value
            session == localStorage.tizo_session.value
            copied(oldKey, newKey) ==
                (~localStorage[oldKey].isNull /\ Unset(before, newKey)) =>
                    session[newKey] = parseInt(localStorage[oldKey].value)
        IN  /\ copied("topupAmount", "offerCost")
            /\ copied("topupTizo", "offerTizo")
            /\ copied("scratchAmount", "bonusCost")
            /\ copied("scratchTizo", "bonusTizo")
            /\ copied("cardQuantity", "cardQuantity")
            /\ ((~localStorage.selectedCard.isNull \/ ~localStorage.cardType.isNull)
                    /\ Unset(before, "selectedCard")) =>
                  session.selectedCard \in
                      { localStorage[k] : k \in { j \in {"selectedCard", "cardType"} :
                                                   ~localStorage[j].isNull } }

\* the one field that is migrated: the card, from cardType
C22_CardMigrated ==
    /\ call.fn = "migrateOldData"
    /\ ~call.before.isNull /\ call.before.value.selectedCard = jsNull
    /\ localStorage.tizo_session.value.selectedCard = js(<<"g", "o", "l", "d">>)

---------------------------------------------------------------------------
(* Properties of the edit mode *)

\* C23: after a successful save the entry saveChanges wrote holds no added
\* element, so a page loaded from its file holds no added element twice;
\* after a failed save the entry is left as saveChanges wrote it.
C23_AddedClearedAfterSave ==
    /\ editPc.event = "saved" =>
          LET entry == editItems[editModeKey]
          IN  entry.isNull \/ \A id \in DOMAIN entry.value : ~entry.value[id].isAdded
    /\ editPc.event = "loaded" => \A id \in AddedIds : dom[id] <= 1
    /\ editPc.event = "saveFailed" => editItems[editModeKey] = js(elementStates)

\* the saved page was loaded and holds an added element twice
C23_RecreatedTwice ==
    /\ editPc.event = "loaded"
    /\ dom["added-1"] = 2 /\ htmlFile["added-1"] = 1

\* C24: changeLayer(delta) on an element whose stored z-index is z leaves it at
\* z + 10 * delta clamped to 0..1000, at every z including 0; the stored
\* z-index is always within 0..1000.
C24_LayerStep ==
    /\ (layer.delta # 0 /\ ~layer.before.isNull) =>
          LET moved == layer.before.value + (10 * layer.delta)
          IN  layer.zIndex.value =
                  (IF moved > 1000 THEN 1000 ELSE IF moved < 0 THEN 0 ELSE moved)
    /\ ~layer.zIndex.isNull => (0 <= layer.zIndex.value /\ layer.zIndex.value <= 1000)

\* changeLayer(+1) at the stored z-index 0 gave 60
C24_FromZero ==
    /\ layer.delta = 1
    /\ layer.before = js(0)
    /\ layer.zIndex = js(60)

====
